---------------------------- MODULE Spec2Model ----------------------------
(***************************************************************************)
(* Model of the easing catalog of src/src/lib.rs: ~30 pure functions       *)
(* f64 -> f64, each a closed-form formula of its argument t.               *)
(*                                                                         *)
(* Numbers.  The formulas are evaluated in exact real arithmetic.  A       *)
(* number is a record [ok, a, b]:                                          *)
(*   ok = TRUE   the real number a + b*pi, a and b rationals <<n, d>> in   *)
(*               lowest terms with d > 0;                                  *)
(*   ok = FALSE  a real number that has no such closed form (an irrational *)
(*               square root, 2^x for a non-integer x, the sine of an      *)
(*               angle that is not a multiple of pi/2, a product holding   *)
(*               pi^2).  Its value is not tracked; it only propagates.     *)
(* Rounding of f64 is not modelled: sin(pi) is 0, 2^-10 is 1/1024.         *)
(*                                                                         *)
(* State.  The library has no state of its own; the state of the model is  *)
(* the last call made by a caller: the function called (fn), its argument  *)
(* (t) and the value it returned (y).                                      *)
(***************************************************************************)
EXTENDS Integers, Sequences, FiniteSets, TLC

VARIABLES fn, t, y

vars == <<fn, t, y>>

(* The sampled arguments are k/GridDen, k = 0..GridDen, and the branch     *)
(* points of the code.                                                     *)
GridDen == 20

-----------------------------------------------------------------------------
(* Rational arithmetic on pairs <<n, d>>, d > 0, gcd(n, d) = 1.            *)

Abs(n) == IF n < 0 THEN -n ELSE n

RECURSIVE GCD(_, _)
GCD(m, n) == IF n = 0 THEN m ELSE GCD(n, m % n)

R(n, d) ==
    LET g == GCD(Abs(n), Abs(d))
        s == IF d < 0 THEN -1 ELSE 1
    IN  <<(s * n) \div g, (s * d) \div g>>

RZero == <<0, 1>>

RNeg(p) == <<-p[1], p[2]>>

RAdd(p, q) ==
    LET g == GCD(p[2], q[2])
        l == (p[2] \div g) * q[2]
    IN  R(p[1] * (l \div p[2]) + q[1] * (l \div q[2]), l)

RMul(p, q) ==
    LET g1 == GCD(Abs(p[1]), q[2])
        g2 == GCD(Abs(q[1]), p[2])
    IN  R((p[1] \div g1) * (q[1] \div g2), (p[2] \div g2) * (q[2] \div g1))

RInv(p) == R(p[2], p[1])

(* p < q, by whole parts and then by the reciprocals of the fractional      *)
(* parts (no product of the two denominators is formed).                   *)
RECURSIVE RLt(_, _)
RLt(p, q) ==
    LET wp == p[1] \div p[2]
        wq == q[1] \div q[2]
        fp == p[1] % p[2]
        fq == q[1] % q[2]
    IN  IF wp # wq THEN wp < wq
        ELSE IF fq = 0 THEN FALSE
        ELSE IF fp = 0 THEN TRUE
        ELSE RLt(<<q[2], fq>>, <<p[2], fp>>)

-----------------------------------------------------------------------------
(* Numbers: a + b*pi, or an untracked real.                                *)

Q(n, d) == [ok |-> TRUE, a |-> R(n, d), b |-> RZero]

N(n) == Q(n, 1)

NaR == [ok |-> FALSE, a |-> RZero, b |-> RZero]

PI == [ok |-> TRUE, a |-> RZero, b |-> <<1, 1>>]

IsRat(x) == x.ok /\ x.b = RZero

IsZero(x) == x.ok /\ x.a = RZero /\ x.b = RZero

Neg(x) == IF x.ok THEN [ok |-> TRUE, a |-> RNeg(x.a), b |-> RNeg(x.b)] ELSE NaR

Add(x, z) ==
    IF x.ok /\ z.ok
    THEN [ok |-> TRUE, a |-> RAdd(x.a, z.a), b |-> RAdd(x.b, z.b)]
    ELSE NaR

Sub(x, z) == Add(x, Neg(z))

Mul(x, z) ==
    IF IsZero(x) \/ IsZero(z) THEN N(0)
    ELSE IF x.ok /\ z.ok /\ (x.b = RZero \/ z.b = RZero)
    THEN [ok |-> TRUE, a |-> RMul(x.a, z.a),
          b |-> RAdd(RMul(x.a, z.b), RMul(x.b, z.a))]
    ELSE NaR

Div(x, z) ==
    IF IsRat(x) /\ IsRat(z) /\ ~IsZero(z)
    THEN [ok |-> TRUE, a |-> RMul(x.a, RInv(z.a)), b |-> RZero]
    ELSE NaR

(* x < z and x == z: the code compares only its argument, a rational.       *)
Lt(x, z) == RLt(x.a, z.a)

Eq(x, z) == x = z


-----------------------------------------------------------------------------
(* f64::sqrt, f64::powf(2.0, _), f64::sin, f64::cos, where the result is   *)
(* a rational; elsewhere the result is an untracked real.                  *)

RECURSIVE RootFrom(_, _)
RootFrom(n, r) == IF r * r >= n THEN r ELSE RootFrom(n, r + 1)

IsSquare(n) == n >= 0 /\ RootFrom(n, 0) * RootFrom(n, 0) = n

Sqrt(x) ==
    IF IsRat(x) /\ IsSquare(x.a[1]) /\ IsSquare(x.a[2])
    THEN Q(RootFrom(x.a[1], 0), RootFrom(x.a[2], 0))
    ELSE NaR

Pow2(x) ==
    IF IsRat(x) /\ x.a[2] = 1
    THEN IF x.a[1] >= 0 THEN Q(2 ^ x.a[1], 1) ELSE Q(1, 2 ^ (-x.a[1]))
    ELSE NaR

(* The angle x = b*pi in quarter turns, when it is a whole number of them. *)
IsQuarterTurns(x) == x.ok /\ x.a = RZero /\ RMul(<<2, 1>>, x.b)[2] = 1

QuarterTurns(x) == RMul(<<2, 1>>, x.b)[1] % 4

Sin(x) ==
    IF IsQuarterTurns(x)
    THEN CASE QuarterTurns(x) = 0 -> N(0)
           [] QuarterTurns(x) = 1 -> N(1)
           [] QuarterTurns(x) = 2 -> N(0)
           [] QuarterTurns(x) = 3 -> N(-1)
    ELSE NaR

Cos(x) ==
    IF IsQuarterTurns(x)
    THEN CASE QuarterTurns(x) = 0 -> N(1)
           [] QuarterTurns(x) = 1 -> N(0)
           [] QuarterTurns(x) = 2 -> N(-1)
           [] QuarterTurns(x) = 3 -> N(0)
    ELSE NaR

(* The literal 0.5 *)
Half == Q(1, 2)

-----------------------------------------------------------------------------
(* The catalog.  Each operator is the body of the function of the same     *)
(* name, operation by operation, in the order Rust evaluates it.  The two  *)
(* arms of an if/else are the operators _lo (t < 0.5) and _hi.             *)

linear(x) == x

quadratic_in(x) == Mul(x, x)

quadratic_out(x) == Neg(Mul(x, Sub(x, N(2))))

quadratic_in_out_lo(x) == Mul(Mul(N(2), x), x)

quadratic_in_out_hi(x) ==
    Sub(Add(Mul(Mul(N(-2), x), x), Mul(N(4), x)), N(1))

quadratic_in_out(x) ==
    IF Lt(x, Half) THEN quadratic_in_out_lo(x) ELSE quadratic_in_out_hi(x)

cubic_in(x) == Mul(Mul(x, x), x)

cubic_out(x) ==
    LET f == Sub(x, N(1))
    IN  Add(Mul(Mul(f, f), f), N(1))

cubic_in_out_lo(x) == Mul(Mul(Mul(N(4), x), x), x)

cubic_in_out_hi(x) ==
    LET f == Sub(Mul(N(2), x), N(2))
    IN  Add(Mul(Mul(Mul(Half, f), f), f), N(1))

cubic_in_out(x) ==
    IF Lt(x, Half) THEN cubic_in_out_lo(x) ELSE cubic_in_out_hi(x)

quartic_in(x) == Mul(Mul(Mul(x, x), x), x)

quartic_out(x) ==
    LET f == Sub(x, N(1))
    IN  Add(Add(Mul(Mul(f, f), f), Sub(N(1), x)), N(1))

quartic_in_out_lo(x) == Mul(Mul(Mul(Mul(N(8), x), x), x), x)

quartic_in_out_hi(x) ==
    LET f == Sub(x, N(1))
    IN  Add(Mul(Mul(Mul(Mul(N(-8), f), f), f), f), N(1))

quartic_in_out(x) ==
    IF Lt(x, Half) THEN quartic_in_out_lo(x) ELSE quartic_in_out_hi(x)

quintic_in(x) == Mul(Mul(Mul(Mul(x, x), x), x), x)

quintic_out(x) ==
    LET f == Sub(x, N(1))
    IN  Add(Mul(Mul(Mul(Mul(f, f), f), f), f), N(1))

quintic_in_out_lo(x) == Mul(Mul(Mul(Mul(Mul(N(16), x), x), x), x), x)

quintic_in_out_hi(x) ==
    LET f == Sub(Mul(N(2), x), N(2))
    IN  Add(Mul(Mul(Mul(Mul(Mul(Half, f), f), f), f), f), N(1))

quintic_in_out(x) ==
    IF Lt(x, Half) THEN quintic_in_out_lo(x) ELSE quintic_in_out_hi(x)

sin_in(x) == Add(Sin(Mul(Mul(Sub(x, N(1)), N(2)), PI)), N(1))

sin_out(x) == Sin(Mul(Mul(x, N(2)), PI))

sin_in_out(x) == Mul(Half, Sub(N(1), Cos(Mul(x, PI))))

circular_in(x) == Sub(N(1), Sqrt(Sub(N(1), Mul(x, x))))

circular_out(x) == Mul(Sqrt(Sub(N(2), x)), x)

circular_in_out_lo(x) ==
    Mul(Half, Sub(N(1), Sqrt(Sub(N(1), Mul(Mul(N(4), x), x)))))

circular_in_out_hi(x) ==
    Mul(Half,
        Add(Sqrt(Mul(Neg(Sub(Mul(N(2), x), N(3))), Sub(Mul(N(2), x), N(1)))),
            N(1)))

circular_in_out(x) ==
    IF Lt(x, Half) THEN circular_in_out_lo(x) ELSE circular_in_out_hi(x)

(* exponential_in without its t == 0 arm. *)
exponential_in_unguarded(x) == Pow2(Mul(N(10), Sub(x, N(1))))

exponential_in(x) ==
    IF Eq(x, N(0)) THEN x ELSE Pow2(Mul(N(10), Sub(x, N(1))))

exponential_out(x) ==
    IF Eq(x, N(1)) THEN x ELSE Sub(N(1), Pow2(Mul(N(-10), x)))

exponential_in_out_lo(x) == Mul(Half, Pow2(Sub(Mul(N(20), x), N(10))))

exponential_in_out_hi(x) ==
    Add(Mul(Half, Pow2(Add(Mul(N(-20), x), N(10)))), N(1))

exponential_in_out(x) ==
    IF Eq(x, N(0)) \/ Eq(x, N(1)) THEN x
    ELSE IF Lt(x, Half) THEN exponential_in_out_lo(x)
    ELSE exponential_in_out_hi(x)

elastic_in(x) ==
    Mul(Sin(Mul(Mul(Mul(N(13), N(2)), PI), x)),
        Pow2(Mul(N(10), Sub(x, N(1)))))

elastic_out(x) ==
    Mul(Sin(Mul(Mul(Mul(N(-13), N(2)), PI), Add(x, N(1)))),
        Pow2(Mul(N(10), Sub(x, N(1)))))

elastic_in_out_lo(x) ==
    Mul(Mul(Half, Mul(Mul(Mul(Mul(N(13), PI), N(2)), N(2)), x)),
        Pow2(Mul(N(10), Sub(Mul(N(2), x), N(1)))))

elastic_in_out_hi(x) ==
    Mul(Half,
        Add(Mul(Sin(Add(Mul(Mul(Mul(N(-13), PI), N(2)),
                            Sub(Mul(N(2), x), N(1))),
                        N(1))),
                Pow2(Mul(N(-10), Sub(Mul(N(2), x), N(1))))),
            N(2)))

elastic_in_out(x) ==
    IF Lt(x, Half) THEN elastic_in_out_lo(x) ELSE elastic_in_out_hi(x)

back_in(x) == Sub(Mul(Mul(x, x), x), Mul(x, Sin(Mul(x, PI))))

back_out(x) ==
    LET f == Sub(N(1), x)
    IN  Sub(N(1), Sub(Mul(Mul(f, f), f), Mul(f, Sin(Mul(f, PI)))))

back_in_out_lo(x) ==
    LET f == Mul(N(2), x)
    IN  Mul(Half, Sub(Mul(Mul(f, f), f), Mul(f, Sin(Mul(f, PI)))))

back_in_out_hi(x) ==
    LET f == Sub(N(1), Sub(Mul(N(2), x), N(1)))
    IN  Add(Mul(Half,
                Sub(N(1), Sub(Mul(Mul(f, f), f), Mul(f, Sin(Mul(f, PI)))))),
            Half)

back_in_out(x) ==
    IF Lt(x, Half) THEN back_in_out_lo(x) ELSE back_in_out_hi(x)

(* The four parabolas of bounce_out: T2 * t * t + T1 * t + T0.             *)
bounce_out_seg1(x) ==
    LET T2 == Div(N(121), N(16))
    IN  Mul(Mul(T2, x), x)

bounce_out_seg2(x) ==
    LET T2 == Div(N(363), N(40))
        T1 == Div(N(-99), N(10))
        T0 == Div(N(17), N(5))
    IN  Add(Add(Mul(Mul(T2, x), x), Mul(T1, x)), T0)

(* The third parabola with T1 miscopied (1800 for 1805). *)
bounce_out_seg3_miscopied(x) ==
    LET T2 == Div(N(4356), N(361))
        T1 == Div(N(-35442), N(1800))
        T0 == Div(N(16061), N(1805))
    IN  Add(Add(Mul(Mul(T2, x), x), Mul(T1, x)), T0)

bounce_out_seg3(x) ==
    LET T2 == Div(N(4356), N(361))
        T1 == Div(N(-35442), N(1805))
        T0 == Div(N(16061), N(1805))
    IN  Add(Add(Mul(Mul(T2, x), x), Mul(T1, x)), T0)

bounce_out_seg4(x) ==
    LET T2 == Div(N(54), N(5))
        T1 == Div(N(-513), N(25))
        T0 == Div(N(268), N(25))
    IN  Add(Add(Mul(Mul(T2, x), x), Mul(T1, x)), T0)

bounce_out(x) ==
    IF Lt(x, Div(N(4), N(11))) THEN bounce_out_seg1(x)
    ELSE IF Lt(x, Div(N(8), N(11))) THEN bounce_out_seg2(x)
    ELSE IF Lt(x, Div(N(9), N(10))) THEN bounce_out_seg3(x)
    ELSE bounce_out_seg4(x)

bounce_in(x) == Sub(N(1), bounce_out(Sub(N(1), x)))

bounce_in_out_lo(x) == Mul(Half, bounce_in(Mul(x, N(2))))

bounce_in_out_hi(x) ==
    Add(Mul(Half, bounce_out(Sub(Mul(x, N(2)), N(1)))), Half)

bounce_in_out(x) ==
    IF Lt(x, Half) THEN bounce_in_out_lo(x) ELSE bounce_in_out_hi(x)

-----------------------------------------------------------------------------
(* The caller.  Arguments are drawn from [0, 1]: the grid k/GridDen and    *)
(* the points where the code changes branch (0.5, 4/11, 8/11, 9/10).       *)

BranchPoints == {Half, Div(N(4), N(11)), Div(N(8), N(11)), Div(N(9), N(10))}

Grid == {Q(k, GridDen) : k \in 0..GridDen} \cup BranchPoints

Init == fn = "none" /\ t = N(0) /\ y = N(0)

call_linear ==
    \E x \in Grid : fn' = "linear" /\ t' = x /\ y' = linear(x)
call_quadratic_in ==
    \E x \in Grid : fn' = "quadratic_in" /\ t' = x /\ y' = quadratic_in(x)
call_quadratic_out ==
    \E x \in Grid : fn' = "quadratic_out" /\ t' = x /\ y' = quadratic_out(x)
call_quadratic_in_out ==
    \E x \in Grid : fn' = "quadratic_in_out" /\ t' = x /\ y' = quadratic_in_out(x)
call_cubic_in ==
    \E x \in Grid : fn' = "cubic_in" /\ t' = x /\ y' = cubic_in(x)
call_cubic_out ==
    \E x \in Grid : fn' = "cubic_out" /\ t' = x /\ y' = cubic_out(x)
call_cubic_in_out ==
    \E x \in Grid : fn' = "cubic_in_out" /\ t' = x /\ y' = cubic_in_out(x)
call_quartic_in ==
    \E x \in Grid : fn' = "quartic_in" /\ t' = x /\ y' = quartic_in(x)
call_quartic_out ==
    \E x \in Grid : fn' = "quartic_out" /\ t' = x /\ y' = quartic_out(x)
call_quartic_in_out ==
    \E x \in Grid : fn' = "quartic_in_out" /\ t' = x /\ y' = quartic_in_out(x)
call_quintic_in ==
    \E x \in Grid : fn' = "quintic_in" /\ t' = x /\ y' = quintic_in(x)
call_quintic_out ==
    \E x \in Grid : fn' = "quintic_out" /\ t' = x /\ y' = quintic_out(x)
call_quintic_in_out ==
    \E x \in Grid : fn' = "quintic_in_out" /\ t' = x /\ y' = quintic_in_out(x)
call_sin_in ==
    \E x \in Grid : fn' = "sin_in" /\ t' = x /\ y' = sin_in(x)
call_sin_out ==
    \E x \in Grid : fn' = "sin_out" /\ t' = x /\ y' = sin_out(x)
call_sin_in_out ==
    \E x \in Grid : fn' = "sin_in_out" /\ t' = x /\ y' = sin_in_out(x)
call_circular_in ==
    \E x \in Grid : fn' = "circular_in" /\ t' = x /\ y' = circular_in(x)
call_circular_out ==
    \E x \in Grid : fn' = "circular_out" /\ t' = x /\ y' = circular_out(x)
call_circular_in_out ==
    \E x \in Grid : fn' = "circular_in_out" /\ t' = x /\ y' = circular_in_out(x)
call_exponential_in ==
    \E x \in Grid : fn' = "exponential_in" /\ t' = x /\ y' = exponential_in(x)
call_exponential_out ==
    \E x \in Grid : fn' = "exponential_out" /\ t' = x /\ y' = exponential_out(x)
call_exponential_in_out ==
    \E x \in Grid : fn' = "exponential_in_out" /\ t' = x /\ y' = exponential_in_out(x)
call_elastic_in ==
    \E x \in Grid : fn' = "elastic_in" /\ t' = x /\ y' = elastic_in(x)
call_elastic_out ==
    \E x \in Grid : fn' = "elastic_out" /\ t' = x /\ y' = elastic_out(x)
call_elastic_in_out ==
    \E x \in Grid : fn' = "elastic_in_out" /\ t' = x /\ y' = elastic_in_out(x)
call_back_in ==
    \E x \in Grid : fn' = "back_in" /\ t' = x /\ y' = back_in(x)
call_back_out ==
    \E x \in Grid : fn' = "back_out" /\ t' = x /\ y' = back_out(x)
call_back_in_out ==
    \E x \in Grid : fn' = "back_in_out" /\ t' = x /\ y' = back_in_out(x)
call_bounce_in ==
    \E x \in Grid : fn' = "bounce_in" /\ t' = x /\ y' = bounce_in(x)
call_bounce_out ==
    \E x \in Grid : fn' = "bounce_out" /\ t' = x /\ y' = bounce_out(x)
call_bounce_in_out ==
    \E x \in Grid : fn' = "bounce_in_out" /\ t' = x /\ y' = bounce_in_out(x)

Next ==
    \/ call_linear
    \/ call_quadratic_in \/ call_quadratic_out \/ call_quadratic_in_out
    \/ call_cubic_in \/ call_cubic_out \/ call_cubic_in_out
    \/ call_quartic_in \/ call_quartic_out \/ call_quartic_in_out
    \/ call_quintic_in \/ call_quintic_out \/ call_quintic_in_out
    \/ call_sin_in \/ call_sin_out \/ call_sin_in_out
    \/ call_circular_in \/ call_circular_out \/ call_circular_in_out
    \/ call_exponential_in \/ call_exponential_out \/ call_exponential_in_out
    \/ call_elastic_in \/ call_elastic_out \/ call_elastic_in_out
    \/ call_back_in \/ call_back_out \/ call_back_in_out
    \/ call_bounce_in \/ call_bounce_out \/ call_bounce_in_out

Spec == Init /\ [][Next]_vars

-----------------------------------------------------------------------------
(* Properties of the catalog.  In each, fn, t and y are the function last  *)
(* called, its argument and its result.                                    *)

(* x <= z on rationals. *)
Leq(x, z) == ~RLt(z.a, x.a)

InUnit(v) == IsRat(v) /\ Leq(N(0), v) /\ Leq(v, N(1))

UnitFamilies ==
    {"linear",
     "quadratic_in", "quadratic_out", "quadratic_in_out",
     "cubic_in", "cubic_out", "cubic_in_out",
     "quartic_in", "quartic_out", "quartic_in_out",
     "quintic_in", "quintic_out", "quintic_in_out",
     "exponential_in", "exponential_out", "exponential_in_out",
     "bounce_in", "bounce_out", "bounce_in_out"}

(* C1: for every t in [0,1], every function of the linear, quadratic,      *)
(* cubic, quartic, quintic, exponential and bounce families returns a      *)
(* value y with 0 <= y <= 1.  (Results that are not rationals are left     *)
(* out of the comparison.)                                                 *)
C1_UnitRange == (fn \in UnitFamilies /\ IsRat(y)) => InUnit(y)

EndpointFamilies ==
    {"linear",
     "quadratic_in", "quadratic_out", "quadratic_in_out",
     "cubic_in", "cubic_out", "cubic_in_out",
     "quartic_in", "quartic_out", "quartic_in_out",
     "quintic_in", "quintic_out", "quintic_in_out",
     "circular_in", "circular_out", "circular_in_out",
     "back_in", "back_out", "back_in_out",
     "bounce_in", "bounce_out", "bounce_in_out"}

Endpoints == (t = N(0) => y = N(0)) /\ (t = N(1) => y = N(1))

(* C2: f(0) = 0 and f(1) = 1 for linear and for the _in, _out and _in_out  *)
(* function of the quadratic, cubic, quartic, quintic, circular, back and  *)
(* bounce families.                                                        *)
C2_Endpoints == fn \in EndpointFamilies => Endpoints

(* C3: sin_in, sin_out and sin_in_out return 0 at t = 0 and 1 at t = 1.    *)
C3_SinEndpoints == fn \in {"sin_in", "sin_out", "sin_in_out"} => Endpoints

(* The arm of an _in_out function taken for t < 0.5. *)
LoArm(name, x) ==
    CASE name = "quadratic_in_out" -> quadratic_in_out_lo(x)
      [] name = "cubic_in_out" -> cubic_in_out_lo(x)
      [] name = "quartic_in_out" -> quartic_in_out_lo(x)
      [] name = "quintic_in_out" -> quintic_in_out_lo(x)
      [] name = "exponential_in_out" -> exponential_in_out_lo(x)
      [] name = "bounce_in_out" -> bounce_in_out_lo(x)

InOutSix ==
    {"quadratic_in_out", "cubic_in_out", "quartic_in_out", "quintic_in_out",
     "exponential_in_out", "bounce_in_out"}

(* C4: at t = 0.5 the result of quadratic_in_out, cubic_in_out,            *)
(* quartic_in_out, quintic_in_out, exponential_in_out and bounce_in_out    *)
(* (the arm of t >= 0.5) equals the arm of t < 0.5 evaluated at 0.5, and   *)
(* both are 0.5.                                                           *)
C4_MidpointContinuous ==
    (fn \in InOutSix /\ t = Half) => (y = LoArm(fn, Half) /\ y = Half)

MonotoneFns ==
    {"linear", "quadratic_in", "quadratic_out", "cubic_in", "cubic_out",
     "quartic_in", "quartic_out", "quintic_in", "quintic_out"}

(* C5: linear and the _in and _out functions of the quadratic, cubic,      *)
(* quartic and quintic families are non-decreasing: of two calls of the    *)
(* same function with t1 <= t2, the second returns no less than the first. *)
C5_Monotone ==
    [][(fn' = fn /\ fn \in MonotoneFns /\ Leq(t, t')) => Leq(y, y')]_vars

(* C6: exponential_in, exponential_out and exponential_in_out return       *)
(* exactly 0 at t = 0 and exactly 1 at t = 1.                              *)
C6_ExponentialEndpoints ==
    fn \in {"exponential_in", "exponential_out", "exponential_in_out"}
        => Endpoints

(* exponential_in was called with 0 and returned 0, not 2^-10. *)
C6_Witness == fn = "exponential_in" /\ t = N(0) /\ y = N(0)

(* The parabola a*t^2 + b*t + c. *)
Parabola(a, b, c, x) == Add(Add(Mul(a, Mul(x, x)), Mul(b, x)), c)

P1(x) == Parabola(Q(121, 16), N(0), N(0), x)
P2(x) == Parabola(Q(363, 40), Q(-99, 10), Q(17, 5), x)
P3(x) == Parabola(Q(4356, 361), Q(-35442, 1805), Q(16061, 1805), x)
P4(x) == Parabola(Q(54, 5), Q(-513, 25), Q(268, 25), x)

(* C7: bounce_out is continuous at t = 4/11, 8/11 and 9/10: the result     *)
(* there (the segment that starts at the breakpoint) equals the segment    *)
(* that ends at it, and the segments are the parabolas with coefficients   *)
(* (121/16,0,0), (363/40,-99/10,17/5), (4356/361,-35442/1805,16061/1805)   *)
(* and (54/5,-513/25,268/25).                                              *)
C7_BounceOutContinuous ==
    fn = "bounce_out" =>
        /\ t = Q(4, 11) =>
              y = bounce_out_seg1(t) /\ y = bounce_out_seg2(t)
                  /\ y = P1(t) /\ y = P2(t)
        /\ t = Q(8, 11) =>
              y = bounce_out_seg2(t) /\ y = bounce_out_seg3(t)
                  /\ y = P2(t) /\ y = P3(t)
        /\ t = Q(9, 10) =>
              y = bounce_out_seg3(t) /\ y = bounce_out_seg4(t)
                  /\ y = P3(t) /\ y = P4(t)

(* bounce_out was called at the breakpoint 8/11, where both segments give 1. *)
C7_Witness == fn = "bounce_out" /\ t = Q(8, 11) /\ y = N(1)

(* C8: quartic_out(t) = 1 - (t - 1)^4 for every t in [0,1].                *)
C8_QuarticOut ==
    fn = "quartic_out" =>
        LET f == Sub(t, N(1))
        IN  y = Sub(N(1), Mul(Mul(Mul(f, f), f), f))

(* 0.5 * X_in(2t) and 0.5 * X_out(2t - 1) + 0.5 for the family of name. *)
ScaledIn(name, x) ==
    LET u == Mul(N(2), x)
    IN  Mul(Half,
            CASE name = "quadratic_in_out" -> quadratic_in(u)
              [] name = "cubic_in_out" -> cubic_in(u)
              [] name = "quartic_in_out" -> quartic_in(u)
              [] name = "quintic_in_out" -> quintic_in(u)
              [] name = "exponential_in_out" -> exponential_in(u)
              [] name = "bounce_in_out" -> bounce_in(u))

ScaledOut(name, x) ==
    LET u == Sub(Mul(N(2), x), N(1))
    IN  Add(Mul(Half,
                CASE name = "quadratic_in_out" -> quadratic_out(u)
                  [] name = "cubic_in_out" -> cubic_out(u)
                  [] name = "quartic_in_out" -> quartic_out(u)
                  [] name = "quintic_in_out" -> quintic_out(u)
                  [] name = "exponential_in_out" -> exponential_out(u)
                  [] name = "bounce_in_out" -> bounce_out(u)),
            Half)

(* C9: for the quadratic, cubic, quartic, quintic, exponential and bounce  *)
(* families, X_in_out(t) = 0.5 * X_in(2t) when t < 0.5 and                 *)
(* X_in_out(t) = 0.5 * X_out(2t - 1) + 0.5 when t >= 0.5.  (Compared where *)
(* both sides are rationals.)                                              *)
C9_InOutComposition ==
    fn \in InOutSix =>
        LET z == IF Lt(t, Half) THEN ScaledIn(fn, t) ELSE ScaledOut(fn, t)
        IN  (IsRat(y) /\ IsRat(z)) => y = z

(* C10: for t < 0.5, elastic_in_out(t) = 0.5 * elastic_in(2t) (compared    *)
(* where the sine is exact), and elastic_in_out(0.25) = 0.                 *)
C10_ElasticInOutFirstHalf ==
    (fn = "elastic_in_out" /\ Lt(t, Half)) =>
        LET z == Mul(Half, elastic_in(Mul(N(2), t)))
        IN  /\ (y.ok /\ z.ok) => y = z
            /\ t = Q(1, 4) => y = N(0)

=============================================================================
